---- MODULE Spec2Model ----
(***************************************************************************)
(* The build-server test double server.py: one synchronous loop that reads *)
(* a Content-Length framed JSON envelope from stdin, dispatches on its     *)
(* method and writes a framed JSON response to stdout.                     *)
(*                                                                         *)
(* Python str values are TLA+ strings, one TLA+ character per Python       *)
(* character.  sys.stdin is a text stream: readline() and read(n) count    *)
(* characters, while the peer counts Content-Length in UTF-8 bytes.        *)
(***************************************************************************)
EXTENDS Integers, Sequences, FiniteSets, TLC

VARIABLES
    stdin,       \* text of sys.stdin not yet read by the program
    stdout,      \* text the peer has received on sys.stdout
    buffer,      \* bytes written to sys.stdout.buffer and not yet flushed
    stdoutOpen,  \* whether the peer still holds its read side of stdout open
    pc,          \* position in the loop: "read", "frame", "dispatch", "write", "done"
    line,        \* local `line`
    length,      \* local `length`
    message,     \* local `message`
    response,    \* local `response`
    outcome,     \* how the loop ended: "running" until then
    body,        \* history: the text returned by the last sys.stdin.read(length)
    avail,       \* history: UTF-8 bytes that were left on stdin when that read began
    nread,       \* history: number of header lines read so far
    input,       \* history: the whole input the peer sends
    trace        \* history: one record per dispatched envelope

vars == <<stdin, stdout, buffer, stdoutOpen, pc, line, length, message,
          response, outcome, body, avail, nread, input, trace>>

---------------------------------------------------------------------------
(* Characters and text *)

\* Stands for the character U+00E9, one Python character, two UTF-8 bytes.
EAcute == "@"

CharAt(s, i) == IF 1 <= i /\ i <= Len(s) THEN SubSeq(s, i, i) ELSE ""

Drop(s, k) == IF k >= Len(s) THEN "" ELSE SubSeq(s, k + 1, Len(s))

\* Number of bytes of c.encode('utf-8').
Utf8Width(c) == IF c = EAcute THEN 2 ELSE 1

\* len(s.encode('utf-8')), summed over the two halves of s.
RECURSIVE Utf8Len(_)
Utf8Len(s) ==
    IF s = "" THEN 0
    ELSE IF Len(s) = 1 THEN Utf8Width(s)
    ELSE Utf8Len(SubSeq(s, 1, Len(s) \div 2))
         + Utf8Len(SubSeq(s, Len(s) \div 2 + 1, Len(s)))

Digits == "0123456789"

DigitChar(d) == SubSeq(Digits, d + 1, d + 1)

DigitChars == {DigitChar(d) : d \in 0..9}

IsDigit(c) == c \in DigitChars

DigitVal(c) == CHOOSE d \in 0..9 : DigitChar(d) = c

\* str(n) of a Python int, as the f-string and json.dumps render it.
RECURSIVE IntToStr(_)
IntToStr(n) ==
    IF n < 0 THEN "-" \o IntToStr(0 - n)
    ELSE IF n < 10 THEN DigitChar(n)
    ELSE IntToStr(n \div 10) \o DigitChar(n % 10)

Spaces == {" ", "\t", "\n", "\r"}

IsSpace(c) == c \in Spaces

RECURSIVE LStrip(_)
LStrip(s) == IF s # "" /\ IsSpace(Head(s)) THEN LStrip(Tail(s)) ELSE s

RECURSIVE RStrip(_)
RStrip(s) ==
    IF s # "" /\ IsSpace(CharAt(s, Len(s)))
    THEN RStrip(SubSeq(s, 1, Len(s) - 1))
    ELSE s

RECURSIVE AllDigits(_)
AllDigits(s) == s = "" \/ (IsDigit(Head(s)) /\ AllDigits(Tail(s)))

RECURSIVE DigitsVal(_, _)
DigitsVal(s, acc) ==
    IF s = "" THEN acc ELSE DigitsVal(Tail(s), 10 * acc + DigitVal(Head(s)))

\* int(s): surrounding whitespace is stripped, one sign is allowed, the rest
\* must be decimal digits; anything else raises ValueError (ok = FALSE).
PyInt(s) ==
    LET t == RStrip(LStrip(s))
        signed == t # "" /\ Head(t) \in {"-", "+"}
        d == IF signed THEN Tail(t) ELSE t
    IN  IF d = "" \/ ~AllDigits(d)
        THEN [ok |-> FALSE, v |-> 0]
        ELSE [ok |-> TRUE,
              v |-> IF signed /\ Head(t) = "-"
                    THEN 0 - DigitsVal(d, 0) ELSE DigitsVal(d, 0)]

StartsWith(s, p) == Len(s) >= Len(p) /\ SubSeq(s, 1, Len(p)) = p

\* Index of the first "\n" of s at or after i, 0 when there is none.
RECURSIVE NewlinePos(_, _)
NewlinePos(s, i) ==
    IF i > Len(s) THEN 0
    ELSE IF CharAt(s, i) = "\n" THEN i
    ELSE NewlinePos(s, i + 1)

\* sys.stdin.readline(): up to and including the first "\n", or all that is
\* left when there is none; "" at end of input.
Readline(s) ==
    LET p == NewlinePos(s, 1) IN IF p = 0 THEN s ELSE SubSeq(s, 1, p)

\* sys.stdin.read(n): n characters, fewer at end of input; everything that
\* is left when n is negative.
Read(s, n) ==
    IF n < 0 \/ n >= Len(s) THEN s
    ELSE IF n = 0 THEN ""
    ELSE SubSeq(s, 1, n)

---------------------------------------------------------------------------
(* Python values that json.loads returns and json.dumps accepts: a tagged  *)
(* record; a dict is the sequence of its <<key, value>> pairs in order.    *)

None == [t |-> "null", v |-> ""]

JInt(n) == [t |-> "int", v |-> n]

JStr(s) == [t |-> "str", v |-> s]

JBool(b) == [t |-> "bool", v |-> b]

JArr(items) == [t |-> "arr", v |-> items]

JObj(pairs) == [t |-> "obj", v |-> pairs]

\* key in d
HasKey(d, k) == d.t = "obj" /\ \E j \in 1..Len(d.v) : d.v[j][1] = k

\* d[key], for a key that is present (a repeated key keeps its last value)
Get(d, k) ==
    LET j == CHOOSE j \in 1..Len(d.v) :
                 /\ d.v[j][1] = k
                 /\ \A h \in (j + 1)..Len(d.v) : d.v[h][1] # k
    IN  d.v[j][2]

\* Variant of Truthy: a response whose result is null counts as no response.
TruthyNeedsValue(x) ==
    /\ x.t = "obj"
    /\ Len(x.v) > 0
    /\ \A j \in 1..Len(x.v) : x.v[j] # <<"result", [t |-> "null", v |-> ""]>>

\* bool(x) as `if response:` evaluates it
Truthy(x) ==
    CASE x.t = "null" -> FALSE
      [] x.t = "bool" -> x.v
      [] x.t = "int"  -> x.v # 0
      [] x.t = "str"  -> x.v # ""
      [] OTHER        -> Len(x.v) > 0

\* "{}".format(x)
PyFormat(x) ==
    CASE x.t = "str"  -> x.v
      [] x.t = "int"  -> IntToStr(x.v)
      [] x.t = "null" -> "None"
      [] x.t = "bool" -> IF x.v THEN "True" ELSE "False"

---------------------------------------------------------------------------
(* json.loads, by recursive descent over the text.  Numbers are decimal     *)
(* integers and the only \u escape read is that of U+00E9: the inputs and  *)
(* the program's own output use no other.                                   *)

Fail == [ok |-> FALSE, v |-> None, i |-> 0]

Ok(v, i) == [ok |-> TRUE, v |-> v, i |-> i]

RECURSIVE SkipWs(_, _)
SkipWs(s, i) == IF IsSpace(CharAt(s, i)) THEN SkipWs(s, i + 1) ELSE i

\* A string literal, read from i, the place after its opening quote.
RECURSIVE ScanString(_, _, _)
ScanString(s, i, acc) ==
    LET c == CharAt(s, i)
        e == CharAt(s, i + 1)
    IN  IF c = "" THEN Fail
        ELSE IF c = "\"" THEN Ok(JStr(acc), i + 1)
        ELSE IF c \in {"\n", "\r", "\t"} THEN Fail
        ELSE IF c # "\\" THEN ScanString(s, i + 1, acc \o c)
        ELSE IF e \in {"\"", "\\", "/"} THEN ScanString(s, i + 2, acc \o e)
        ELSE IF e = "n" THEN ScanString(s, i + 2, acc \o "\n")
        ELSE IF e = "r" THEN ScanString(s, i + 2, acc \o "\r")
        ELSE IF e = "t" THEN ScanString(s, i + 2, acc \o "\t")
        ELSE IF e = "u" /\ i + 5 <= Len(s) /\ SubSeq(s, i + 2, i + 5) = "00e9"
             THEN ScanString(s, i + 6, acc \o EAcute)
        ELSE Fail

RECURSIVE ScanDigits(_, _, _)
ScanDigits(s, i, acc) ==
    IF IsDigit(CharAt(s, i))
    THEN ScanDigits(s, i + 1, 10 * acc + DigitVal(CharAt(s, i)))
    ELSE Ok(JInt(acc), i)

ParseNumber(s, i) ==
    LET neg == CharAt(s, i) = "-"
        j == IF neg THEN i + 1 ELSE i
        r == ScanDigits(s, j, 0)
    IN  IF ~IsDigit(CharAt(s, j)) THEN Fail
        ELSE IF neg THEN Ok(JInt(0 - r.v.v), r.i)
        ELSE r

Literal(s, i, w) == i + Len(w) - 1 <= Len(s) /\ SubSeq(s, i, i + Len(w) - 1) = w

RECURSIVE ParseValue(_, _)
RECURSIVE ParseMembers(_, _, _)
RECURSIVE ParseItems(_, _, _)

ParseValue(s, i) ==
    LET c == CharAt(s, i)
        j == SkipWs(s, i + 1)
    IN  IF c = "{" THEN
            IF CharAt(s, j) = "}" THEN Ok(JObj(<<>>), j + 1)
            ELSE ParseMembers(s, j, <<>>)
        ELSE IF c = "[" THEN
            IF CharAt(s, j) = "]" THEN Ok(JArr(<<>>), j + 1)
            ELSE ParseItems(s, j, <<>>)
        ELSE IF c = "\"" THEN ScanString(s, i + 1, "")
        ELSE IF c = "-" \/ IsDigit(c) THEN ParseNumber(s, i)
        ELSE IF Literal(s, i, "null") THEN Ok(None, i + 4)
        ELSE IF Literal(s, i, "true") THEN Ok(JBool(TRUE), i + 4)
        ELSE IF Literal(s, i, "false") THEN Ok(JBool(FALSE), i + 5)
        ELSE Fail

\* The members of an object from i, the place of the next key.
ParseMembers(s, i, acc) ==
    LET k == ScanString(s, i + 1, "")
        c == SkipWs(s, k.i)
        x == ParseValue(s, SkipWs(s, c + 1))
        e == SkipWs(s, x.i)
        pairs == Append(acc, <<k.v.v, x.v>>)
    IN  IF CharAt(s, i) # "\"" \/ ~k.ok THEN Fail
        ELSE IF CharAt(s, c) # ":" THEN Fail
        ELSE IF ~x.ok THEN Fail
        ELSE IF CharAt(s, e) = "}" THEN Ok(JObj(pairs), e + 1)
        ELSE IF CharAt(s, e) = "," THEN ParseMembers(s, SkipWs(s, e + 1), pairs)
        ELSE Fail

\* The elements of an array from i, the place of the next element.
ParseItems(s, i, acc) ==
    LET x == ParseValue(s, i)
        e == SkipWs(s, x.i)
        items == Append(acc, x.v)
    IN  IF ~x.ok THEN Fail
        ELSE IF CharAt(s, e) = "]" THEN Ok(JArr(items), e + 1)
        ELSE IF CharAt(s, e) = "," THEN ParseItems(s, SkipWs(s, e + 1), items)
        ELSE Fail

\* json.loads(s): one value with nothing but whitespace around it; ok = FALSE
\* stands for JSONDecodeError.
Loads(s) ==
    LET r == ParseValue(s, SkipWs(s, 1))
    IN  IF r.ok /\ SkipWs(s, r.i) = Len(s) + 1 THEN r ELSE Fail

---------------------------------------------------------------------------
(* json.dumps with its defaults: ensure_ascii=True and the separators      *)
(* ", " and ": ".                                                          *)

\* Variant of EscapeChar: ensure_ascii is off, U+00E9 is written as itself.
EscapeCharRaw(c) ==
    IF c = "\"" THEN "\\\""
    ELSE IF c = "\\" THEN "\\\\"
    ELSE IF c = "\n" THEN "\\n"
    ELSE IF c = "\r" THEN "\\r"
    ELSE IF c = "\t" THEN "\\t"
    ELSE c

EscapeChar(c) ==
    IF c = "\"" THEN "\\\""
    ELSE IF c = "\\" THEN "\\\\"
    ELSE IF c = "\n" THEN "\\n"
    ELSE IF c = "\r" THEN "\\r"
    ELSE IF c = "\t" THEN "\\t"
    ELSE IF c = EAcute THEN "\\u00e9"
    ELSE c

RECURSIVE Escape(_)
Escape(s) ==
    IF Len(s) <= 1 THEN EscapeChar(s)
    ELSE Escape(SubSeq(s, 1, Len(s) \div 2))
         \o Escape(SubSeq(s, Len(s) \div 2 + 1, Len(s)))

DumpsStr(s) == "\"" \o Escape(s) \o "\""

RECURSIVE Dumps(_)
RECURSIVE DumpsItems(_, _)
RECURSIVE DumpsMembers(_, _)

Dumps(x) ==
    CASE x.t = "null" -> "null"
      [] x.t = "bool" -> (IF x.v THEN "true" ELSE "false")
      [] x.t = "int"  -> IntToStr(x.v)
      [] x.t = "str"  -> DumpsStr(x.v)
      [] x.t = "arr"  -> "[" \o DumpsItems(x.v, 1) \o "]"
      [] x.t = "obj"  -> "{" \o DumpsMembers(x.v, 1) \o "}"

DumpsItems(items, j) ==
    IF j > Len(items) THEN ""
    ELSE Dumps(items[j])
         \o (IF j < Len(items) THEN ", " ELSE "")
         \o DumpsItems(items, j + 1)

DumpsMembers(pairs, j) ==
    IF j > Len(pairs) THEN ""
    ELSE DumpsStr(pairs[j][1]) \o ": " \o Dumps(pairs[j][2])
         \o (IF j < Len(pairs) THEN ", " ELSE "")
         \o DumpsMembers(pairs, j + 1)

---------------------------------------------------------------------------
(* Bytes on stdout.  A byte string is a TLA+ string with one character per *)
(* byte; the two bytes of U+00E9 are written ByteC3 and ByteA9.            *)

ByteC3 == "^"

ByteA9 == "~"

\* text.encode('utf-8'), the two halves of the text one after the other
RECURSIVE Utf8Encode(_)
Utf8Encode(s) ==
    IF Len(s) <= 1 THEN (IF s = EAcute THEN ByteC3 \o ByteA9 ELSE s)
    ELSE Utf8Encode(SubSeq(s, 1, Len(s) \div 2))
         \o Utf8Encode(SubSeq(s, Len(s) \div 2 + 1, Len(s)))

---------------------------------------------------------------------------
(* The responses the loop builds *)

HeaderTag == "Content-Length:"

\* lines 17-30
InitializeResponse(id) ==
    JObj(<< <<"jsonrpc", JStr("2.0")>>,
            <<"id", id>>,
            <<"result", JObj(<<
                <<"displayName", JStr("test server")>>,
                <<"version", JStr("0.1")>>,
                <<"bspVersion", JStr("2.0")>>,
                <<"rootUri", JStr("blah")>>,
                <<"capabilities",
                  JObj(<< <<"languageIds", JArr(<<JStr("a"), JStr("b")>>)>> >>)>>,
                <<"data",
                  JObj(<< <<"indexStorePath", JStr("some/index/store/path")>> >>)>>
            >>)>> >>)

\* lines 34-38
ShutdownResponse(id) ==
    JObj(<< <<"jsonrpc", JStr("2.0")>>, <<"id", id>>, <<"result", None>> >>)

SourceItem(uri, kind) ==
    JObj(<< <<"uri", JStr(uri)>>, <<"kind", JInt(kind)>>,
            <<"generated", JBool(FALSE)>> >>)

TargetItem(target, file, folder) ==
    JObj(<< <<"target", JObj(<< <<"uri", JStr(target)>> >>)>>,
            <<"sources", JArr(<<SourceItem(file, 1), SourceItem(folder, 2)>>)>> >>)

\* Variant of SourcesResponse: the "jsonrpc" member is left out.
SourcesResponseNoVersion(id) ==
    JObj(<< <<"id", id>>, <<"result", JObj(<< <<"items", JArr(<<>>)>> >>)>> >>)

\* lines 42-79
SourcesResponse(id) ==
    JObj(<< <<"jsonrpc", JStr("2.0")>>,
            <<"id", id>>,
            <<"result", JObj(<< <<"items", JArr(<<
                TargetItem("build://target/a", "file:///path/to/a/file",
                           "file:///path/to/a/folder/"),
                TargetItem("build://target/b", "file:///path/to/b/file",
                           "file:///path/to/b/folder/") >>)>> >>)>> >>)

\* Variant of ErrorObject: the message leaves the method name out.
ErrorObjectWithoutName(method) ==
    JObj(<< <<"code", JInt(123)>>, <<"message", JStr("unhandled method")>> >>)

\* lines 85-88
ErrorObject(method) ==
    JObj(<< <<"code", JInt(123)>>,
            <<"message", JStr("unhandled method " \o PyFormat(method))>> >>)

\* Variant of ErrorResponse: the id is null instead of the request's.
ErrorResponseNullId(id, method) ==
    JObj(<< <<"jsonrpc", JStr("2.0")>>,
            <<"id", None>>,
            <<"error", ErrorObject(method)>> >>)

\* lines 82-89
ErrorResponse(id, method) ==
    JObj(<< <<"jsonrpc", JStr("2.0")>>,
            <<"id", id>>,
            <<"error", ErrorObject(method)>> >>)

Reply(r) == [act |-> "reply", response |-> r, error |-> ""]

Raise(e) == [act |-> "raise", response |-> None, error |-> e]

Continue == [act |-> "continue", response |-> None, error |-> ""]

Break == [act |-> "break", response |-> None, error |-> ""]

\* Lines 16-30.  message["id"] raises KeyError when "id" is absent.
OnInitialize(m) ==
    IF HasKey(m, "id") THEN Reply(InitializeResponse(Get(m, "id")))
    ELSE Raise("KeyError")

\* Lines 31-32
OnInitialized(m) == Continue

\* Variant of OnShutdown: the loop ends at build/shutdown.
OnShutdownExits(m) == Break

\* Lines 33-38
OnShutdown(m) ==
    IF HasKey(m, "id") THEN Reply(ShutdownResponse(Get(m, "id")))
    ELSE Raise("KeyError")

\* Variant of OnExit: build/exit is skipped like build/initialized.
OnExitContinues(m) == Continue

\* Lines 39-40
OnExit(m) == Break

\* Variant of OnSources: without "id" the envelope is skipped.
OnSourcesSkipsNotification(m) ==
    IF HasKey(m, "id") THEN Reply(SourcesResponse(Get(m, "id")))
    ELSE Continue

\* Lines 41-79
OnSources(m) ==
    IF HasKey(m, "id") THEN Reply(SourcesResponse(Get(m, "id")))
    ELSE Raise("KeyError")

\* Variant of OnOther: no error response for an unhandled request.
OnOtherDropsRequests(m) == Reply(None)

\* Variant of OnOther: the "id" test is missing and the id defaults to null.
OnOtherAnswersNotifications(m) ==
    Reply(ErrorResponse(IF HasKey(m, "id") THEN Get(m, "id") ELSE None,
                        Get(m, "method")))

\* Variant of OnOther: an unhandled notification ends the loop.
OnOtherNotificationBreaks(m) ==
    IF HasKey(m, "id") THEN Reply(ErrorResponse(Get(m, "id"), Get(m, "method")))
    ELSE Break

\* Lines 80-89: any other method; without "id" `response` stays None.
OnOther(m) ==
    IF HasKey(m, "id") THEN Reply(ErrorResponse(Get(m, "id"), Get(m, "method")))
    ELSE Reply(None)

\* Lines 15-89: what one pass of the if/elif chain does with `message`.
Handle(m) ==
    IF m.t # "obj" THEN Raise("TypeError")
    ELSE IF ~HasKey(m, "method") THEN Raise("KeyError")
    ELSE IF Get(m, "method") = JStr("build/initialize") THEN OnInitialize(m)
    ELSE IF Get(m, "method") = JStr("build/initialized") THEN OnInitialized(m)
    ELSE IF Get(m, "method") = JStr("build/shutdown") THEN OnShutdown(m)
    ELSE IF Get(m, "method") = JStr("build/exit") THEN OnExit(m)
    ELSE IF Get(m, "method") = JStr("buildTarget/sources") THEN OnSources(m)
    ELSE OnOther(m)

\* Variant of Emit: the new frame lands ahead of what was sent before.
EmitFirst(sent, data) == data \o sent

\* Line 95: what the peer has received once `data` is flushed after `sent`
Emit(sent, data) == sent \o data

\* Variant of EncodeFrame: the declared length is one short of the body.
EncodeFrameShort(responseStr) ==
    Utf8Encode(HeaderTag \o " " \o IntToStr(Len(responseStr) - 1) \o "\r\n\r\n"
               \o responseStr)

\* Line 94: the bytes of one frame
EncodeFrame(responseStr) ==
    Utf8Encode(HeaderTag \o " " \o IntToStr(Len(responseStr)) \o "\r\n\r\n"
               \o responseStr)

---------------------------------------------------------------------------
(* The peer's input.  A frame is written as the protocol asks: the header  *)
(* counts the UTF-8 bytes of the body.                                     *)

MaxFrames == 2

Request(id, method) ==
    "{\"jsonrpc\":\"2.0\",\"id\":" \o id \o ",\"method\":\"" \o method \o "\"}"

Notification(method) ==
    "{\"jsonrpc\":\"2.0\",\"method\":\"" \o method \o "\"}"

Header(n) == HeaderTag \o " " \o n \o "\r\n\r\n"

Frame(text) == Header(IntToStr(Utf8Len(text))) \o text

\* Requests and notifications of a conforming peer, with ASCII bodies.
PlainFrames ==
    { Frame(Request("1", "build/initialize")),
      Frame(Notification("build/initialized")),
      Frame(Request("7", "build/shutdown")),
      Frame(Notification("build/exit")),
      Frame(Request("2", "buildTarget/sources")),
      Frame(Request("9", "foo/bar")),
      Frame(Notification("foo/bar")) }

\* The two notification methods, sent with an id.
IdNotificationFrames ==
    { Frame(Request("5", "build/initialized")),
      Frame(Request("6", "build/exit")) }

\* Well-framed envelopes that lack a key the loop subscripts.
OddFrames ==
    { Frame(Notification("build/initialize")),
      Frame(Notification("build/shutdown")),
      Frame(Notification("buildTarget/sources")),
      Frame("{\"jsonrpc\":\"2.0\",\"id\":3}") }

\* Frames a conforming peer sends whose body holds a two-byte character.
MultiByteFrames ==
    { Frame(Request("\"q\"", "doc/" \o EAcute)),
      Frame(Notification("doc/" \o EAcute)) }

\* Input that breaks the framing: no header tag, a length that is no number,
\* a negative length, a length larger than what follows.
BrokenFrames ==
    { "X-Length: 1\r\n\r\n{}",
      Header("abc") \o Request("9", "foo/bar"),
      Header("-1") \o Request("7", "build/shutdown"),
      Header("99") \o Request("7", "build/shutdown") }

Frames ==
    PlainFrames \cup IdNotificationFrames \cup OddFrames \cup MultiByteFrames
    \cup BrokenFrames

\* The inputs of at most n frames drawn from F.
RECURSIVE InputsOf(_, _)
InputsOf(F, n) ==
    IF n = 0 THEN {""}
    ELSE InputsOf(F, n - 1)
         \cup {f \o rest : f \in F, rest \in InputsOf(F, n - 1)}

Inputs == InputsOf(Frames, MaxFrames)

---------------------------------------------------------------------------
(* The peer's reading of stdout, by the wire format: a header line         *)
(* "Content-Length: N", an empty line, N bytes of UTF-8 JSON.              *)

RECURSIVE Utf8Decode(_)
Utf8Decode(b) ==
    IF Len(b) <= 1 THEN [ok |-> b \notin {ByteC3, ByteA9}, v |-> b]
    ELSE IF b = ByteC3 \o ByteA9 THEN [ok |-> TRUE, v |-> EAcute]
    ELSE
        LET half == Len(b) \div 2
            h == IF Len(b) > 2 /\ CharAt(b, half) = ByteC3 THEN half + 1 ELSE half
            l == Utf8Decode(SubSeq(b, 1, h))
            r == Utf8Decode(SubSeq(b, h + 1, Len(b)))
        IN  [ok |-> l.ok /\ r.ok, v |-> l.v \o r.v]

\* The values of the frames of byte string b, after those in acc; ok = FALSE
\* when b is not a sequence of whole frames.
RECURSIVE PeerFrames(_, _)
PeerFrames(b, acc) ==
    IF b = "" THEN [ok |-> TRUE, v |-> acc]
    ELSE
        LET hl == Readline(b)
            n == PyInt(Drop(hl, Len(HeaderTag)))
            after == Drop(b, Len(hl) + 2)
            text == Utf8Decode(Read(after, n.v))
            val == Loads(text.v)
        IN  IF \/ ~StartsWith(hl, HeaderTag \o " ")
               \/ ~n.ok
               \/ n.v < 0
               \/ hl # HeaderTag \o " " \o IntToStr(n.v) \o "\r\n"
               \/ ~StartsWith(Drop(b, Len(hl)), "\r\n")
               \/ Len(after) < n.v
               \/ ~text.ok
               \/ ~val.ok
            THEN [ok |-> FALSE, v |-> acc]
            ELSE PeerFrames(Drop(after, n.v), Append(acc, val.v))

Decoded(b) == PeerFrames(b, <<>>)

\* d, a reading of some bytes, is exactly one frame
IsOneFrame(d) == d.ok /\ Len(d.v) = 1

---------------------------------------------------------------------------
(* The loop *)

Init ==
    /\ input \in Inputs
    /\ stdin = input
    /\ stdout = ""
    /\ buffer = ""
    /\ stdoutOpen = TRUE
    /\ pc = "read"
    /\ line = ""
    /\ length = 0
    /\ message = None
    /\ response = None
    /\ outcome = "running"
    /\ body = ""
    /\ avail = ""
    /\ nread = 0
    /\ trace = <<>>

\* The record of one pass over a dispatched envelope: the envelope, the
\* declared length and the body text it was parsed from, the value of
\* `response` at line 91, the bytes written for it and the peer's reading of
\* them, whether a write was attempted and failed, where the loop went next,
\* the number of header lines read by then, and the input not yet read by
\* then.
Entry(resp, out, failed, next) ==
    [msg |-> message, len |-> length, body |-> body, response |-> resp,
     out |-> out, seen |-> Decoded(out), failed |-> failed,
     next |-> next, n |-> nread, rest |-> stdin]

\* Lines 6-8: read a header line; the loop ends on an empty read.
ReadHeader ==
    /\ pc = "read"
    /\ line' = Readline(stdin)
    /\ stdin' = Drop(stdin, Len(line'))
    /\ IF line' = ""
       THEN pc' = "done" /\ outcome' = "eof" /\ nread' = nread
       ELSE pc' = "frame" /\ outcome' = outcome /\ nread' = nread + 1
    /\ UNCHANGED <<stdout, buffer, stdoutOpen, length, message, response, body,
                   avail, input, trace>>

\* Variant of HeaderOk: the assert is compiled away.
HeaderUnchecked(l) == TRUE

\* Line 10: the condition of the assert
HeaderOk(l) == StartsWith(l, HeaderTag)

\* Lines 10-13: check the tag, parse the length, skip a line, read the body
\* and parse it.  An exception leaves the loop.
ReadFrame ==
    /\ pc = "frame"
    /\ LET n == PyInt(Drop(line, Len(HeaderTag)))
           sep == Readline(stdin)
           after == Drop(stdin, Len(sep))
           text == Read(after, n.v)
           m == Loads(text)
       IN  IF ~HeaderOk(line) THEN
               /\ pc' = "done" /\ outcome' = "AssertionError"
               /\ UNCHANGED <<stdin, length, message, body, avail>>
           ELSE IF ~n.ok THEN
               /\ pc' = "done" /\ outcome' = "ValueError"
               /\ UNCHANGED <<stdin, length, message, body, avail>>
           ELSE
               /\ length' = n.v
               /\ avail' = after
               /\ body' = text
               /\ stdin' = Drop(after, Len(text))
               /\ IF m.ok
                  THEN pc' = "dispatch" /\ message' = m.v /\ outcome' = outcome
                  ELSE pc' = "done" /\ message' = message
                       /\ outcome' = "JSONDecodeError"
    /\ UNCHANGED <<stdout, buffer, stdoutOpen, line, response, nread, input,
                   trace>>

\* Variant of ResponseAtStart: `response` keeps the value of the last pass.
ResponseKept(previous) == previous

\* Line 15: `response` at the start of the if/elif chain
ResponseAtStart(previous) == None

\* Lines 15-89: build the response, or continue, break or raise.
Dispatch ==
    /\ pc = "dispatch"
    /\ LET h == Handle(message)
           r == IF h.response = None THEN ResponseAtStart(response)
                ELSE h.response
       IN
       /\ response' = r
       /\ IF h.act = "reply" THEN
              pc' = "write" /\ outcome' = outcome /\ trace' = trace
          ELSE IF h.act = "continue" THEN
              /\ pc' = "read" /\ outcome' = outcome
              /\ trace' = Append(trace, Entry(r, "", FALSE, "read"))
          ELSE IF h.act = "break" THEN
              /\ pc' = "done" /\ outcome' = "exit"
              /\ trace' = Append(trace, Entry(r, "", FALSE, "done"))
          ELSE
              /\ pc' = "done" /\ outcome' = h.error
              /\ trace' = Append(trace, Entry(r, "", FALSE, "done"))
    /\ UNCHANGED <<stdin, stdout, buffer, stdoutOpen, line, length, message,
                   body, avail, nread, input>>

\* Line 94: sys.stdout.buffer.write(data) appends to the buffered bytes
BufferWrite(held, data) == held \o data

\* Variant of OnWriteError: the loop goes on after a failed write.
OnWriteErrorContinues(error) == Continue

\* Lines 96-98: IOError leaves the loop, any other exception propagates
OnWriteError(error) == IF error = "IOError" THEN Break ELSE Raise(error)

\* Lines 91-98: when `response` is truthy, write one frame to the buffer
\* and flush it; flushing to a closed stdout raises IOError (BrokenPipeError)
\* and leaves the bytes in the buffer.
Write ==
    /\ pc = "write"
    /\ LET out == EncodeFrame(Dumps(response))
           held == BufferWrite(buffer, out)
           h == OnWriteError("IOError")
           next == IF h.act = "continue" THEN "read" ELSE "done"
       IN
       IF ~Truthy(response) THEN
           /\ pc' = "read" /\ outcome' = outcome
           /\ stdout' = stdout /\ buffer' = buffer
           /\ trace' = Append(trace, Entry(response, "", FALSE, "read"))
       ELSE IF stdoutOpen THEN
           /\ pc' = "read" /\ outcome' = outcome
           /\ stdout' = Emit(stdout, held) /\ buffer' = ""
           /\ trace' = Append(trace, Entry(response, held, FALSE, "read"))
       ELSE
           /\ pc' = next
           /\ outcome' = IF next = "done" THEN "IOError" ELSE outcome
           /\ stdout' = stdout /\ buffer' = held
           /\ trace' = Append(trace, Entry(response, "", TRUE, next))
    /\ UNCHANGED <<stdin, stdoutOpen, line, length, message, response, body,
                   avail, nread, input>>

\* The peer closes its read side of the program's stdout.
PeerCloses ==
    /\ pc # "done"
    /\ stdoutOpen
    /\ stdoutOpen' = FALSE
    /\ UNCHANGED <<stdin, stdout, buffer, pc, line, length, message, response,
                   outcome, body, avail, nread, input, trace>>

Next == ReadHeader \/ ReadFrame \/ Dispatch \/ Write \/ PeerCloses

Spec == Init /\ [][Next]_vars

---------------------------------------------------------------------------
(* Vocabulary of the properties *)

HasId(m) == HasKey(m, "id")

HasMethod(m) == HasKey(m, "method")

MethodIs(m, name) == HasMethod(m) /\ Get(m, "method") = JStr(name)

RecognizedMethods ==
    {"build/initialize", "build/initialized", "build/shutdown", "build/exit",
     "buildTarget/sources"}

\* An envelope whose method is a string other than the five recognized ones.
IsUnknown(m) ==
    /\ HasMethod(m)
    /\ Get(m, "method").t = "str"
    /\ Get(m, "method").v \notin RecognizedMethods

RECURSIVE OutsFrom(_, _)
OutsFrom(t, k) == IF k > Len(t) THEN "" ELSE t[k].out \o OutsFrom(t, k + 1)

\* The bytes written for the envelopes of the trace, in their order.
Outs == OutsFrom(trace, 1)

HasOut(e) == e.out # ""

\* The envelopes a frame was written for, in the order they were received.
Answered == SelectSeq(trace, HasOut)

IsSuffix(r, t) == Len(r) <= Len(t) /\ Drop(t, Len(t) - Len(r)) = r

---------------------------------------------------------------------------
(* Properties *)

\* C1, as stated: every envelope that carries an id, whatever its method,
\* has exactly one response frame written for it (a failed write aside).
C1_EveryIdAnswered ==
    \A k \in 1..Len(trace) :
        (HasId(trace[k].msg) /\ HasMethod(trace[k].msg) /\ ~trace[k].failed)
            => IsOneFrame(trace[k].seen)

\* C1, amended: every envelope that carries an id has exactly one response
\* frame written for it before the next header line is read, unless its
\* method is build/initialized or build/exit, for which nothing is written,
\* or the write fails.
C1_IdAnsweredUnlessNotificationMethod ==
    \A k \in 1..Len(trace) :
        LET e == trace[k] IN
        (HasId(e.msg) /\ HasMethod(e.msg) /\ ~e.failed) =>
            /\ e.n = k
            /\ IF MethodIs(e.msg, "build/initialized") \/ MethodIs(e.msg, "build/exit")
               THEN e.out = ""
               ELSE IsOneFrame(e.seen)

\* build/initialized sent with an id got nothing, the request after it one frame.
C1_Witness ==
    /\ Len(trace) = 2
    /\ HasId(trace[1].msg) /\ MethodIs(trace[1].msg, "build/initialized")
    /\ trace[1].out = ""
    /\ HasId(trace[2].msg) /\ IsUnknown(trace[2].msg)
    /\ IsOneFrame(trace[2].seen)
    /\ pc = "read"

\* C2: a frame written for an envelope is written for a request, and every
\* response in it carries the id of that request.
C2_ResponseEchoesId ==
    \A k \in 1..Len(trace) :
        LET e == trace[k]
            d == e.seen
        IN  HasOut(e) =>
                /\ HasId(e.msg)
                /\ d.ok
                /\ \A j \in 1..Len(d.v) :
                       HasKey(d.v[j], "id") /\ Get(d.v[j], "id") = Get(e.msg, "id")

\* Two requests with different ids and methods were both answered.
C2_Witness ==
    /\ Len(trace) = 2
    /\ MethodIs(trace[1].msg, "buildTarget/sources") /\ HasOut(trace[1])
    /\ IsUnknown(trace[2].msg) /\ HasOut(trace[2])
    /\ Get(trace[1].msg, "id") # Get(trace[2].msg, "id")

\* C3: nothing is written for an envelope without an id, and stdout holds
\* nothing but what was written for the envelopes.
C3_NotificationsSilent ==
    /\ stdout = Outs
    /\ \A k \in 1..Len(trace) : ~HasId(trace[k].msg) => trace[k].out = ""

\* An unhandled notification and build/initialized were processed, nothing written.
C3_Witness ==
    /\ Len(trace) = 2
    /\ ~HasId(trace[1].msg) /\ IsUnknown(trace[1].msg)
    /\ ~HasId(trace[2].msg) /\ MethodIs(trace[2].msg, "build/initialized")
    /\ stdout = ""
    /\ pc = "read"

\* C4: an envelope with an id and an unhandled method is answered with one
\* frame, an error of code 123 and message "unhandled method <method>", and
\* the loop goes back to reading (a failed write aside).
C4_UnhandledRequestError ==
    \A k \in 1..Len(trace) :
        LET e == trace[k]
            d == e.seen
        IN  (HasId(e.msg) /\ IsUnknown(e.msg) /\ ~e.failed) =>
                /\ IsOneFrame(e.seen)
                /\ ~HasKey(d.v[1], "result")
                /\ HasKey(d.v[1], "error")
                /\ Get(d.v[1], "error") =
                       JObj(<< <<"code", JInt(123)>>,
                               <<"message",
                                 JStr("unhandled method "
                                      \o Get(e.msg, "method").v)>> >>)
                /\ e.next = "read"

\* An unhandled request was answered and the frame after it was processed.
C4_Witness ==
    /\ Len(trace) = 2
    /\ HasId(trace[1].msg) /\ MethodIs(trace[1].msg, "foo/bar")
    /\ HasOut(trace[1])
    /\ trace[2].n = 2

\* C5: an envelope without an id and with an unhandled method writes
\* nothing and does not end the loop; the loop is back at reading with
\* stdout as it was and with the input not yet read being the frames that
\* follow, whole.
C5_UnhandledNotificationSkipped ==
    \A k \in 1..Len(trace) :
        LET e == trace[k] IN
        (~HasId(e.msg) /\ IsUnknown(e.msg)) =>
            /\ e.out = "" /\ ~e.failed
            /\ e.next = "read"
            /\ OutsFrom(trace, k) = OutsFrom(trace, k + 1)
            /\ e.rest \in Inputs /\ IsSuffix(e.rest, input)
            /\ (k = Len(trace) /\ pc = "read") => stdin = e.rest

\* An unhandled notification, then a request that was read and answered.
C5_Witness ==
    /\ Len(trace) = 2
    /\ ~HasId(trace[1].msg) /\ MethodIs(trace[1].msg, "foo/bar")
    /\ MethodIs(trace[2].msg, "build/shutdown") /\ IsOneFrame(trace[2].seen)
    /\ stdout = trace[2].out

\* C6: build/exit ends the loop with nothing written for it, and what
\* follows it in the input is never read: no header line is read after it,
\* no envelope is dispatched after it, stdin and stdout stay as they were.
C6_ExitEndsLoop ==
    \A k \in 1..Len(trace) :
        LET e == trace[k] IN
        MethodIs(e.msg, "build/exit") =>
            /\ e.out = "" /\ ~e.failed
            /\ e.next = "done"
            /\ pc = "done" /\ outcome = "exit"
            /\ k = Len(trace)
            /\ nread = e.n
            /\ stdin = e.rest
            /\ stdout = OutsFrom(trace, 1)

\* build/exit was processed while another frame was waiting on stdin.
C6_Witness ==
    /\ Len(trace) = 1
    /\ MethodIs(trace[1].msg, "build/exit")
    /\ stdin \in Frames
    /\ pc = "done"

Fatal == {"AssertionError", "ValueError", "JSONDecodeError", "KeyError", "TypeError"}

ConformingInputs == InputsOf(PlainFrames \cup MultiByteFrames, MaxFrames)

\* C8, as stated: on an input of well-formed frames the loop never ends in
\* an exception, and when it ends at the end of the input every envelope of
\* the input was dispatched and every request among them answered.
C8_CleanEndOfInput ==
    (pc = "done" /\ input \in ConformingInputs) =>
        /\ outcome \in {"eof", "exit", "IOError"}
        /\ outcome = "eof" =>
               /\ Len(trace) = Len(Decoded(Utf8Encode(input)).v)
               /\ \A k \in 1..Len(trace) :
                      HasId(trace[k].msg) => IsOneFrame(trace[k].seen)

\* C9: stdout is the frames written for the envelopes, in the order the
\* envelopes were received; each pass writes nothing or one whole frame, and
\* it is written before the next header line is read; when the loop has
\* ended, the ids of the responses the peer reads from stdout are the ids of
\* the answered requests, in order.
C9_ResponsesInOrder ==
    LET d == Decoded(stdout) IN
    /\ stdout = Outs
    /\ \A k \in 1..Len(trace) :
           /\ trace[k].n = k
           /\ trace[k].out = "" \/ IsOneFrame(trace[k].seen)
    /\ pc = "read" => Len(trace) = nread
    /\ pc = "done" =>
           /\ d.ok
           /\ Len(d.v) = Len(Answered)
           /\ \A j \in 1..Len(d.v) :
                  Get(d.v[j], "id") = Get(Answered[j].msg, "id")

\* Two responses are on stdout, for two requests with different ids.
C9_Witness ==
    /\ Len(Answered) = 2
    /\ Get(Answered[1].msg, "id") = JInt(9)
    /\ Get(Answered[2].msg, "id") = JInt(1)
    /\ Len(Decoded(stdout).v) = 2
    /\ pc = "done"

\* C10, as stated: when at least `length` bytes follow the separator line,
\* the body read takes exactly `length` bytes of them.
C10_BodyIsDeclaredBytes ==
    (length >= 0 /\ Utf8Len(avail) >= length) => Utf8Len(body) = length

\* C11, as stated: an envelope is dispatched only when the body it was
\* parsed from has exactly the declared number of bytes, so nothing is
\* dispatched or written for a body cut short by the end of the input.
C11_DispatchedBodyIsWhole ==
    /\ pc \in {"dispatch", "write"} => Utf8Len(body) = length
    /\ \A k \in 1..Len(trace) : Utf8Len(trace[k].body) = trace[k].len

\* C12: every frame written is "Content-Length: L", "\r\n\r\n" and the
\* bytes of the serialized response, L being the number of those bytes; it
\* has reached the peer, and nothing is left in the buffer, before the loop
\* goes on.
C12_ContentLengthIsByteCount ==
    /\ outcome # "IOError" => buffer = ""
    /\ stdout = Outs
    /\ \A k \in 1..Len(trace) :
           LET e == trace[k]
               hl == Readline(e.out)
               payload == Drop(e.out, Len(hl) + 2)
           IN  (Truthy(e.response) /\ ~e.failed) =>
                   /\ payload = Utf8Encode(Dumps(e.response))
                   /\ payload # ""
                   /\ e.out = Utf8Encode(HeaderTag \o " "
                                         \o IntToStr(Len(payload))
                                         \o "\r\n\r\n") \o payload

\* A frame was written and flushed, and after it an error response that
\* embeds a method name with U+00E9.
C12_Witness ==
    /\ Len(trace) = 2
    /\ MethodIs(trace[1].msg, "build/initialize") /\ HasOut(trace[1])
    /\ MethodIs(trace[2].msg, "doc/" \o EAcute) /\ HasOut(trace[2])
    /\ stdout = trace[1].out \o trace[2].out
    /\ buffer = ""

\* C13: once a header line without the tag "Content-Length:" has been
\* checked, the loop has ended in AssertionError; nothing was dispatched or
\* written for that line, the input after it is unread, and no step follows.
C13_BadTagIsFatal ==
    (line # "" /\ ~StartsWith(line, HeaderTag) /\ pc # "frame") =>
        /\ pc = "done" /\ outcome = "AssertionError"
        /\ Len(trace) = nread - 1
        /\ stdout = Outs
        /\ IsSuffix(line \o stdin, input)
        /\ ~ENABLED Next

\* The loop ended on a line without the tag while a whole frame was waiting
\* behind it, and nothing was written.
C13_Witness ==
    /\ outcome = "AssertionError"
    /\ nread = 1
    /\ \E f \in PlainFrames : IsSuffix(f, stdin)
    /\ stdout = ""

\* s is a decimal integer without a sign, surrounding whitespace aside.
IsNaturalText(s) ==
    LET t == RStrip(LStrip(s)) IN t # "" /\ AllDigits(t)

\* C14, as stated: once a header line with the tag and a value that is not
\* a non-negative decimal integer has been parsed, the loop has ended in
\* ValueError with no body read and nothing dispatched from that frame.
C14_BadLengthFailsFast ==
    (/\ StartsWith(line, HeaderTag)
     /\ ~IsNaturalText(Drop(line, Len(HeaderTag)))
     /\ pc # "frame") =>
        /\ pc = "done" /\ outcome = "ValueError"
        /\ Len(trace) = nread - 1
        /\ IsSuffix(line \o stdin, input)

RECURSIVE Essence(_)
Essence(pairs) ==
    IF pairs = <<>> THEN <<>>
    ELSE IF Head(pairs)[1] \in {"id", "method"}
         THEN <<Head(pairs)>> \o Essence(Tail(pairs))
         ELSE Essence(Tail(pairs))

\* What one pass writes for envelope m when stdout is open, whatever came
\* before it.
ExpectedOut(m) ==
    LET h == Handle(m) IN
    IF h.act = "reply" /\ Truthy(h.response)
    THEN EncodeFrame(Dumps(h.response)) ELSE ""

\* Where the loop goes after envelope m when nothing fails on stdout.
ExpectedNext(m) ==
    IF Handle(m).act \in {"reply", "continue"} THEN "read" ELSE "done"

\* C16: what is written for an envelope, and whether the loop goes on, is a
\* function of the envelope's id and method alone: it is the same at every
\* position of the input, before or after build/initialize or any other
\* frame (a failed write aside).
C16_ResponseIgnoresHistory ==
    \A k \in 1..Len(trace) :
        LET e == trace[k] IN
        (e.msg.t = "obj" /\ ~e.failed) =>
            /\ e.out = ExpectedOut(JObj(Essence(e.msg.v)))
            /\ e.next = ExpectedNext(JObj(Essence(e.msg.v)))
            /\ \A j \in 1..Len(trace) :
                   (trace[j].msg = e.msg /\ ~trace[j].failed) =>
                       trace[j].out = e.out

\* buildTarget/sources was answered with the fixture before build/initialize
\* was received, and build/initialize was answered after it.
C16_Witness ==
    /\ Len(trace) = 2
    /\ MethodIs(trace[1].msg, "buildTarget/sources")
    /\ IsOneFrame(trace[1].seen)
    /\ trace[1].seen.v[1] = SourcesResponse(JInt(2))
    /\ MethodIs(trace[2].msg, "build/initialize")
    /\ IsOneFrame(trace[2].seen)

\* C17: a build/shutdown request is answered with one frame whose response
\* has the member "result" with the value null and no member "error" (a
\* failed write aside).
C17_ShutdownResultNull ==
    \A k \in 1..Len(trace) :
        LET e == trace[k] IN
        (MethodIs(e.msg, "build/shutdown") /\ HasId(e.msg) /\ ~e.failed) =>
            /\ IsOneFrame(e.seen)
            /\ e.seen.v[1] = JObj(<< <<"jsonrpc", JStr("2.0")>>,
                                     <<"id", Get(e.msg, "id")>>,
                                     <<"result", None>> >>)
            /\ e.out = Utf8Encode("Content-Length: "
                                  \o IntToStr(Len(Dumps(e.seen.v[1])))
                                  \o "\r\n\r\n" \o Dumps(e.seen.v[1]))

\* build/shutdown with id 7 was answered with a frame, result null.
C17_Witness ==
    /\ Len(trace) = 1
    /\ MethodIs(trace[1].msg, "build/shutdown")
    /\ HasId(trace[1].msg) /\ Get(trace[1].msg, "id") = JInt(7)
    /\ stdout =
           "Content-Length: 43\r\n\r\n{\"jsonrpc\": \"2.0\", \"id\": 7, \"result\": null}"

\* r is an object with "jsonrpc" equal to "2.0", an "id", and exactly one of
\* "result" and "error".
IsResponse(r) ==
    /\ r.t = "obj"
    /\ HasKey(r, "jsonrpc") /\ Get(r, "jsonrpc") = JStr("2.0")
    /\ HasKey(r, "id")
    /\ HasKey(r, "result") # HasKey(r, "error")

\* C18: every frame written holds a response with "jsonrpc" equal to "2.0",
\* an "id" and exactly one of "result" and "error"; so does every frame the
\* peer reads from stdout once the loop has ended.
C18_ResponseShape ==
    /\ \A k \in 1..Len(trace) :
           HasOut(trace[k]) =>
               /\ trace[k].seen.ok
               /\ \A j \in 1..Len(trace[k].seen.v) : IsResponse(trace[k].seen.v[j])
    /\ pc = "done" =>
           LET d == Decoded(stdout) IN
           d.ok /\ \A j \in 1..Len(d.v) : IsResponse(d.v[j])

\* A result response and an error response are on stdout.
C18_Witness ==
    /\ Len(trace) = 2
    /\ HasOut(trace[1]) /\ HasKey(trace[1].seen.v[1], "result")
    /\ HasOut(trace[2]) /\ HasKey(trace[2].seen.v[1], "error")
    /\ pc = "done"

\* Lines 6-13 as a function of the text on stdin: the value parsed, the
\* length declared, the body read and the text left unread.
DecodeFrame(text) ==
    LET hl == Readline(text)
        n == PyInt(Drop(hl, Len(HeaderTag)))
        sep == Readline(Drop(text, Len(hl)))
        after == Drop(text, Len(hl) + Len(sep))
        b == Read(after, n.v)
        m == Loads(b)
    IN  IF hl = "" \/ ~HeaderOk(hl) \/ ~n.ok \/ ~m.ok
        THEN [ok |-> FALSE, v |-> None, len |-> 0, body |-> "", rest |-> text]
        ELSE [ok |-> TRUE, v |-> m.v, len |-> n.v, body |-> b,
              rest |-> Drop(after, Len(b))]

\* C19: the bytes written for a response, decoded as UTF-8 and read the way
\* the loop reads a frame, give back that response, with a body of the
\* declared number of bytes and nothing left over; the peer's reading of the
\* bytes by the wire format gives the same value.
C19_RoundTrip ==
    \A k \in 1..Len(trace) :
        LET e == trace[k]
            t == Utf8Decode(e.out)
            d == DecodeFrame(t.v)
        IN  HasOut(e) =>
                /\ t.ok
                /\ d.ok
                /\ d.v = e.response
                /\ Utf8Len(d.body) = d.len
                /\ d.rest = ""
                /\ IsOneFrame(e.seen)
                /\ e.seen.v[1] = e.response

\* The fixture of buildTarget/sources and an error response with U+00E9 in
\* its message were written and read back.
C19_Witness ==
    /\ Len(trace) = 2
    /\ trace[1].response = SourcesResponse(JInt(2)) /\ HasOut(trace[1])
    /\ trace[2].response = ErrorResponse(JStr("q"), JStr("doc/" \o EAcute))
    /\ DecodeFrame(Utf8Decode(trace[2].out).v).v = trace[2].response

IdMethods == {"build/initialize", "build/shutdown", "buildTarget/sources"}

\* C20: an envelope without an id whose method is build/initialize,
\* build/shutdown or buildTarget/sources ends the loop in KeyError: nothing
\* is written for it, the input after it stays unread, and no step follows.
C20_MissingIdIsFatal ==
    \A k \in 1..Len(trace) :
        LET e == trace[k] IN
        (~HasId(e.msg) /\ \E name \in IdMethods : MethodIs(e.msg, name)) =>
            /\ e.out = "" /\ ~e.failed
            /\ e.next = "done"
            /\ k = Len(trace)
            /\ pc = "done" /\ outcome = "KeyError"
            /\ nread = e.n /\ stdin = e.rest
            /\ stdout = Outs
            /\ ~ENABLED Next

\* buildTarget/sources without an id ended the loop while a request was
\* waiting behind it; nothing was written.
C20_Witness ==
    /\ Len(trace) = 1
    /\ ~HasId(trace[1].msg) /\ MethodIs(trace[1].msg, "buildTarget/sources")
    /\ outcome = "KeyError"
    /\ stdin = Frame(Request("1", "build/initialize"))
    /\ stdout = ""

====
